---- MODULE Spec2Model ----
(***************************************************************************)
(* Model of src/executor/Executor.cpp of the nebula graph engine:          *)
(*  - Executor::create / Executor::makeExecutor: the recursive, memoized   *)
(*    construction of one executor per plan node, run here as an explicit  *)
(*    call stack, one action per step of the function;                     *)
(*  - Executor::Executor, open, close, finish: the base executor's         *)
(*    counters, its slot in the ExecutionContext and its profiling data.   *)
(***************************************************************************)
EXTENDS Integers, Naturals, Sequences, FiniteSets, TLC

VARIABLES plan, stack, pool, visited, ectx, phase, ret, now, prof, lastOp, lastFin, writers, budget

vars == <<plan, stack, pool, visited, ectx, phase, ret, now, prof, lastOp, lastFin, writers, budget>>

(* ---------------------------- bounds ---------------------------------- *)

\* number of plan nodes of the plans built under Spec
MaxNodes == 3
\* longest dependency list a plan node declares
MaxDeps == 3
\* number of plan nodes of the plans built and run under RunSpec
MaxRunNodes == 2
\* largest number of rows of a Result
MaxRows == 1
\* last reading of the wall clock
MaxNow == 1
\* number of lifecycle calls made on the executors of one built graph
MaxOps == 2

(* ---------------------------- plan graph ------------------------------ *)

\* a null PlanNode* / Executor*
nullptr == 0

\* the sequences over S of length 0..n
SeqsUpTo(S, n) == UNION {[1..k -> S] : k \in 0..n}

\* PlanNode: kind(), dependencies(), Select::then(), Select::otherwise(),
\* Loop::body(), outputVar(); id() is the node's index in the plan.
\* kPassThrough stands for the kinds the dispatch constructs a plain executor
\* for, kUnknown for a kind no case constructs anything for.
\* A dependency or control child of node i is a node below i (the plan is a DAG);
\* Select and Loop are single-dependency nodes with non-null control children.
NodeChoices(i, vs) ==
  LET lower == 1..(i - 1) IN
    { [kind |-> k, deps |-> d, then |-> nullptr, otherwise |-> nullptr, body |-> nullptr, outputVar |-> v] :
        k \in {"kPassThrough", "kUnknown"}, d \in SeqsUpTo(lower, MaxDeps), v \in vs }
    \cup
    { [kind |-> "kSelect", deps |-> <<d>>, then |-> t, otherwise |-> o, body |-> nullptr, outputVar |-> v] :
        d \in lower, t \in lower, o \in lower, v \in vs }
    \cup
    { [kind |-> "kLoop", deps |-> <<d>>, then |-> nullptr, otherwise |-> nullptr, body |-> b, outputVar |-> v] :
        d \in lower, b \in lower, v \in vs }

\* the plans of n nodes in which every node writes a variable of its own
RECURSIVE Plans(_)
Plans(n) ==
  IF n = 0 THEN {<<>>}
  ELSE { Append(p, c) : p \in Plans(n - 1), c \in NodeChoices(n, {n}) }

\* the plans of n nodes in which a node writes its own variable or, the planner
\* having renamed its output, the variable of a node below it
RECURSIVE SharingPlans(_)
SharingPlans(n) ==
  IF n = 0 THEN {<<>>}
  ELSE { Append(p, c) : p \in SharingPlans(n - 1), c \in NodeChoices(n, {n, 1}) }

\* the node Executor::create is called on
Root == Len(plan)

(* ---------------------------- build ----------------------------------- *)

\* the names of makeExecutor's local variables holding built executors
Locals == {"thenBody", "elseBody", "body", "dep", "left", "right"}

NoLocals == [l \in Locals |-> nullptr]

Call(child, local) == [op |-> "call", arg |-> child, local |-> local]
Link(op, local) == [op |-> op, arg |-> nullptr, local |-> local]

\* SelectStmts with the then body attached as the else body too
SelectStmts_sameBody(nd) ==
  << Call(nd.then, "thenBody"), Call(nd.otherwise, "elseBody"),
     Link("setThenBody", "thenBody"), Link("setElseBody", "thenBody") >>

\* case 1, kSelect: both bodies are built, then attached
SelectStmts(nd) ==
  << Call(nd.then, "thenBody"), Call(nd.otherwise, "elseBody"),
     Link("setThenBody", "thenBody"), Link("setElseBody", "elseBody") >>

\* case 1, kLoop: the body is built, then attached
LoopStmts(nd) == << Call(nd.body, "body"), Link("setLoopBody", "body") >>

\* case 1, every kind: the dependency is built, then declared
SingleStmts(nd) == << Call(nd.deps[1], "dep"), Link("dependsOn", "dep") >>

\* BinaryStmts with the right dependency declared first
BinaryStmts_swapped(nd) ==
  << Call(nd.deps[1], "left"), Call(nd.deps[2], "right"),
     Link("dependsOn", "right"), Link("dependsOn", "left") >>

\* case 2: both dependencies are built, then declared left to right
BinaryStmts(nd) ==
  << Call(nd.deps[1], "left"), Call(nd.deps[2], "right"),
     Link("dependsOn", "left"), Link("dependsOn", "right") >>

\* DefaultStmts that logs without aborting
DefaultStmts_nonFatal(nd) == <<>>

\* default: LOG(FATAL)
DefaultStmts(nd) == << Link("fatal", "dep") >>

\* the statements makeExecutor(node, qctx, visited) runs after constructing the
\* executor, by the switch on dependencies().size()
Ops(n) ==
  LET nd == plan[n]
      k  == Len(nd.deps)
  IN  IF k = 0 THEN <<>>
      ELSE IF k = 1 THEN
        (IF nd.kind = "kSelect" THEN SelectStmts(nd)
         ELSE IF nd.kind = "kLoop" THEN LoopStmts(nd)
         ELSE <<>>) \o SingleStmts(nd)
      ELSE IF k = 2 THEN BinaryStmts(nd)
      ELSE DefaultStmts(nd)

\* ExecutorClass with a default case that constructs a plain executor
ExecutorClass_default(kind) ==
  CASE kind = "kSelect" -> "SelectExecutor"
    [] kind = "kLoop"   -> "LoopExecutor"
    [] OTHER            -> "PassThroughExecutor"

\* makeExecutor(qctx, node): the executor class the switch on node->kind()
\* constructs, or "" where it falls out of the switch to LOG(FATAL)
ExecutorClass(kind) ==
  CASE kind = "kPassThrough" -> "PassThroughExecutor"
    [] kind = "kSelect"      -> "SelectExecutor"
    [] kind = "kLoop"        -> "LoopExecutor"
    [] OTHER                 -> ""

\* ExecutionContext::exist
Exist(ec, var) == var \in DOMAIN ec

\* ExecutionContext::initVar: the slot exists and holds no rows
InitVar(ec, var) == (var :> <<>>) @@ ec

\* ExecutionContext::setResult: the slot holds the result, created if missing
SetResult(ec, var, result) == (var :> result) @@ ec

\* Executor::Executor: the new object; id_ is the node's id, the edges are
\* empty, the counters at zero and the timer started at construction
NewExecutor(n, name) ==
  [id |-> n, name |-> name, node |-> n, depends |-> <<>>,
   thenBody |-> nullptr, elseBody |-> nullptr, loopBody |-> nullptr,
   numRows |-> 0, execTime |-> 0, start |-> now]

\* CtorEctx without the initVar
CtorEctx_noInit(ec, n) == ec

\* Executor::Executor: the slot of the node's output variable is initialized
\* unless it exists
CtorEctx(ec, n) ==
  IF ~Exist(ec, plan[n].outputVar) THEN InitVar(ec, plan[n].outputVar) ELSE ec

\* Executor::dependsOn: one more declared predecessor
DependsOn(e, dep) == [e EXCEPT !.depends = Append(@, dep)]

\* Found of a map that is never consulted
Found_never(n) == FALSE

\* visited->find(node->id()) != visited->end()
Found(n) == n \in DOMAIN visited

Top == stack[Len(stack)]

\* a return of makeExecutor: the caller stores the value in the local its call
\* statement names and moves on; Executor::create returns it to the driver
Return(value) ==
  IF Len(stack) = 1
    THEN /\ stack' = <<>>
         /\ ret' = value
         /\ phase' = "done"
    ELSE LET caller == stack[Len(stack) - 1]
             stmt   == Ops(caller.node)[caller.pc]
         IN  /\ stack' = SubSeq(stack, 1, Len(stack) - 2) \o
                           << [caller EXCEPT !.pc = @ + 1, !.locals[stmt.local] = value] >>
             /\ UNCHANGED <<ret, phase>>

\* makeExecutor(node, qctx, visited), lines 87-90: the node is memoized
MakeExecutorHit ==
  /\ phase = "build"
  /\ Top.pc = 0
  /\ Found(Top.node)
  /\ Return(visited[Top.node])
  /\ UNCHANGED <<plan, pool, visited, ectx, now, prof, lastOp, lastFin, writers, budget>>

\* MakeExecutorNew that memoizes the executor as soon as it is constructed
MakeExecutorNew_early ==
  /\ phase = "build"
  /\ Top.pc = 0
  /\ ~Found(Top.node)
  /\ ExecutorClass(plan[Top.node].kind) # ""
  /\ pool' = Append(pool, NewExecutor(Top.node, ExecutorClass(plan[Top.node].kind)))
  /\ ectx' = CtorEctx(ectx, Top.node)
  /\ visited' = (Top.node :> Len(pool) + 1) @@ visited
  /\ stack' = [stack EXCEPT ![Len(stack)] = [@ EXCEPT !.pc = 1, !.exec = Len(pool) + 1]]
  /\ UNCHANGED <<plan, phase, ret, now, prof, lastOp, lastFin, writers, budget>>

\* makeExecutor(node, qctx, visited), line 92: the node is not memoized and
\* makeExecutor(qctx, node) constructs its executor in the object pool
MakeExecutorNew ==
  /\ phase = "build"
  /\ Top.pc = 0
  /\ ~Found(Top.node)
  /\ ExecutorClass(plan[Top.node].kind) # ""
  /\ pool' = Append(pool, NewExecutor(Top.node, ExecutorClass(plan[Top.node].kind)))
  /\ ectx' = CtorEctx(ectx, Top.node)
  /\ stack' = [stack EXCEPT ![Len(stack)] = [@ EXCEPT !.pc = 1, !.exec = Len(pool) + 1]]
  /\ UNCHANGED <<plan, visited, phase, ret, now, prof, lastOp, lastFin, writers, budget>>

\* makeExecutor(qctx, node), line 342: no case constructs the node's kind
FatalUnknownKind ==
  /\ phase = "build"
  /\ Top.pc = 0
  /\ ~Found(Top.node)
  /\ ExecutorClass(plan[Top.node].kind) = ""
  /\ phase' = "aborted"
  /\ UNCHANGED <<plan, stack, pool, visited, ectx, ret, now, prof, lastOp, lastFin, writers, budget>>

\* the statement the top frame is at, if any
AtStmt == Top.pc >= 1 /\ Top.pc <= Len(Ops(Top.node))

Stmt == Ops(Top.node)[Top.pc]

\* a recursive call makeExecutor(child, qctx, visited)
CallChild ==
  /\ phase = "build"
  /\ AtStmt
  /\ Stmt.op = "call"
  /\ stack' = Append(stack, [node |-> Stmt.arg, pc |-> 0, exec |-> nullptr, locals |-> NoLocals])
  /\ UNCHANGED <<plan, pool, visited, ectx, phase, ret, now, prof, lastOp, lastFin, writers, budget>>

\* setThenBody, setElseBody, setLoopBody or dependsOn on the new executor
LinkEffect(e, stmt, value) ==
  CASE stmt.op = "setThenBody" -> [e EXCEPT !.thenBody = value]
    [] stmt.op = "setElseBody" -> [e EXCEPT !.elseBody = value]
    [] stmt.op = "setLoopBody" -> [e EXCEPT !.loopBody = value]
    [] stmt.op = "dependsOn"   -> DependsOn(e, value)

LinkChild ==
  /\ phase = "build"
  /\ AtStmt
  /\ Stmt.op \in {"setThenBody", "setElseBody", "setLoopBody", "dependsOn"}
  /\ pool' = [pool EXCEPT ![Top.exec] = LinkEffect(@, Stmt, Top.locals[Stmt.local])]
  /\ stack' = [stack EXCEPT ![Len(stack)] = [@ EXCEPT !.pc = @ + 1]]
  /\ UNCHANGED <<plan, visited, ectx, phase, ret, now, prof, lastOp, lastFin, writers, budget>>

\* the default case of the switch: LOG(FATAL)
FatalDependencies ==
  /\ phase = "build"
  /\ AtStmt
  /\ Stmt.op = "fatal"
  /\ phase' = "aborted"
  /\ UNCHANGED <<plan, stack, pool, visited, ectx, ret, now, prof, lastOp, lastFin, writers, budget>>

\* lines 129-130: the executor is memoized and returned
MakeExecutorReturn ==
  /\ phase = "build"
  /\ Top.pc > Len(Ops(Top.node))
  /\ visited' = (Top.node :> Top.exec) @@ visited
  /\ Return(Top.exec)
  /\ UNCHANGED <<plan, pool, ectx, now, prof, lastOp, lastFin, writers, budget>>

BuildNext ==
  \/ MakeExecutorHit
  \/ MakeExecutorNew
  \/ FatalUnknownKind
  \/ CallChild
  \/ LinkChild
  \/ FatalDependencies
  \/ MakeExecutorReturn

NoOp == [op |-> "none", exec |-> nullptr, status |-> "OK"]

\* Executor::create: an empty visited map and the call on the root
Create(p) ==
  /\ plan = p
  /\ stack = << [node |-> Len(p), pc |-> 0, exec |-> nullptr, locals |-> NoLocals] >>
  /\ pool = <<>>
  /\ visited = <<>>
  /\ ectx = <<>>
  /\ phase = "build"
  /\ ret = nullptr
  /\ now = 0
  /\ prof = <<>>
  /\ lastOp = NoOp
  /\ lastFin = <<>>
  /\ writers = <<>>
  /\ budget = MaxOps

Init == \E p \in Plans(MaxNodes) : Create(p)

Spec == Init /\ [][BuildNext]_vars

\* the build is one synchronous call: a step it can take, it takes
FairSpec == Init /\ [][BuildNext]_vars /\ WF_vars(BuildNext)

(* ---------------------------- lifecycle ------------------------------- *)

\* a Result: its rows
Results == SeqsUpTo({"row"}, MaxRows)

\* the executors of the built graph
Handles == 1..Len(pool)

\* node()->outputVar()
OutputVar(e) == plan[pool[e].node].outputVar

\* OpenExec that leaves the execution time as it was
OpenExec_keepsExecTime(x, t) == [x EXCEPT !.numRows = 0, !.start = t]

\* Executor::open at clock reading t: the counters are zeroed and the timer
\* restarted
OpenExec(x, t) == [x EXCEPT !.numRows = 0, !.execTime = 0, !.start = t]

\* FinishExec that does not record the size
FinishExec_noRows(x, result) == x

\* Executor::finish, line 386: the row count is the size of the result
FinishExec(x, result) == [x EXCEPT !.numRows = Len(result)]

\* FinishVar that names the output variable of the plan's root
FinishVar_root(e) == plan[Len(plan)].outputVar

\* Executor::finish, line 387: the slot setResult is called on
FinishVar(e) == OutputVar(e)

\* Executor::close: the ProfilingStats record
CloseStats(x) ==
  [total_duration_in_us |-> now - x.start, rows |-> x.numRows, exec_duration_in_us |-> x.execTime]

\* QueryContext::addProfilingData: one more record under the node's id
AddProfilingData(pd, id, stats) ==
  IF id \in DOMAIN pd THEN [pd EXCEPT ![id] = Append(@, stats)] ELSE (id :> <<stats>>) @@ pd

\* the ScopedTimer of an execute(): the time it took is added to execTime_
AddExecTime(x) == [x EXCEPT !.execTime = @ + 1]

Called(op, e) == [op |-> op, exec |-> e, status |-> "OK"]

Open(e) ==
  /\ phase = "done" /\ budget > 0
  /\ pool' = [pool EXCEPT ![e] = OpenExec(@, now)]
  /\ lastOp' = Called("open", e)
  /\ lastFin' = [x \in DOMAIN lastFin \ {e} |-> lastFin[x]]
  /\ budget' = budget - 1
  /\ UNCHANGED <<plan, stack, visited, ectx, phase, ret, now, prof, writers>>

Finish(e, result) ==
  /\ phase = "done" /\ budget > 0
  /\ pool' = [pool EXCEPT ![e] = FinishExec(@, result)]
  /\ ectx' = SetResult(ectx, FinishVar(e), result)
  /\ lastOp' = Called("finish", e)
  /\ lastFin' = (e :> result) @@ lastFin
  /\ writers' = (FinishVar(e) :> ((IF FinishVar(e) \in DOMAIN writers THEN writers[FinishVar(e)] ELSE {}) \cup {e})) @@ writers
  /\ budget' = budget - 1
  /\ UNCHANGED <<plan, stack, visited, phase, ret, now, prof>>

Close(e) ==
  /\ phase = "done" /\ budget > 0
  /\ prof' = AddProfilingData(prof, pool[e].node, CloseStats(pool[e]))
  /\ lastOp' = Called("close", e)
  /\ budget' = budget - 1
  /\ UNCHANGED <<plan, stack, pool, visited, ectx, phase, ret, now, lastFin, writers>>

\* an execute() of the executor's class ran under its ScopedTimer
ExecuteTimer(e) ==
  /\ phase = "done" /\ budget > 0
  /\ pool[e].execTime < MaxNow
  /\ pool' = [pool EXCEPT ![e] = AddExecTime(@)]
  /\ lastOp' = Called("execute", e)
  /\ budget' = budget - 1
  /\ UNCHANGED <<plan, stack, visited, ectx, phase, ret, now, prof, lastFin, writers>>

\* the wall clock advances
Tick ==
  /\ phase = "done"
  /\ now < MaxNow
  /\ now' = now + 1
  /\ lastOp' = Called("tick", nullptr)
  /\ UNCHANGED <<plan, stack, pool, visited, ectx, phase, ret, prof, lastFin, writers, budget>>

RunNext ==
  \/ BuildNext
  \/ \E e \in Handles : Open(e)
  \/ \E e \in Handles, result \in Results : Finish(e, result)
  \/ \E e \in Handles : Close(e)
  \/ \E e \in Handles : ExecuteTimer(e)
  \/ Tick

RunInit == \E p \in SharingPlans(MaxRunNodes) : Create(p)

RunSpec == RunInit /\ [][RunNext]_vars

(* ---------------------------- properties ------------------------------ *)

\* the executors an executor refers to: declared predecessors and bodies
Links(x) ==
  {x.depends[i] : i \in 1..Len(x.depends)} \cup ({x.thenBody, x.elseBody, x.loopBody} \ {nullptr})

\* a dependency count the switch has no case for
BadArity(n) == Len(plan[n].deps) \notin {0, 1, 2}

\* an internal-invariant violation at node n
Bad(n) == plan[n].kind = "kUnknown" \/ BadArity(n)

\* the dependencies and control children of a plan node
ChildrenOf(n) ==
  {plan[n].deps[i] : i \in 1..Len(plan[n].deps)} \cup ({plan[n].then, plan[n].otherwise, plan[n].body} \ {nullptr})

\* the nodes a walk from n passes through, a violating node ending its branch
RECURSIVE WalkFrom(_)
WalkFrom(n) == {n} \cup (IF Bad(n) THEN {} ELSE UNION {WalkFrom(c) : c \in ChildrenOf(n)})

\* C1: a plan node has at most one executor in the arena, and every declared
\* predecessor or attached body of every executor is the memoized executor of
\* the node it was built for, however many parents reach that node.
C1_OneExecutorPerNode ==
  /\ \A i, j \in Handles : pool[i].id = pool[j].id => i = j
  /\ \A p \in Handles : \A h \in Links(pool[p]) :
       /\ h \in Handles
       /\ pool[h].id \in DOMAIN visited
       /\ visited[pool[h].id] = h

\* C1 witness: the build returned and two distinct executors refer to the same
\* executor
C1_SharedNodeBuilt ==
  /\ phase = "done"
  /\ \E p, q \in Handles : p # q /\ Links(pool[p]) \cap Links(pool[q]) # {}

\* C2: once the build has returned, the executor of every Select node has a
\* then body and an else body, the executors built for the node's then and
\* otherwise children.
C2_SelectBodiesSet ==
  phase = "done" =>
    \A e \in Handles : plan[pool[e].node].kind = "kSelect" =>
      /\ pool[e].thenBody \in Handles
      /\ pool[e].elseBody \in Handles
      /\ pool[pool[e].thenBody].id = plan[pool[e].node].then
      /\ pool[pool[e].elseBody].id = plan[pool[e].node].otherwise

\* C2 witness: the build returned with the executor of a Select node whose
\* then and otherwise children differ
C2_SelectBuilt ==
  /\ phase = "done"
  /\ \E e \in Handles :
       /\ plan[pool[e].node].kind = "kSelect"
       /\ plan[pool[e].node].then # plan[pool[e].node].otherwise

\* C3: a node whose dependency list is longer than 2 stops the build where it
\* is constructed: the call on it makes no recursive call and declares no edge,
\* and the node is never memoized.
C3_NoEdgeBeyondTwoDeps ==
  /\ \A i \in 1..Len(stack) : (stack[i].pc >= 1 /\ BadArity(stack[i].node)) =>
       /\ i = Len(stack)
       /\ stack[i].pc = 1
       /\ stack[i].locals = NoLocals
       /\ pool[stack[i].exec].depends = <<>>
       /\ Links(pool[stack[i].exec]) = {}
  /\ \A n \in DOMAIN visited : ~BadArity(n)
  /\ \A e \in Handles : BadArity(pool[e].node) => phase # "done"

\* C3 witness: the build aborted in a recursive call on a node of 3 dependencies
C3_AbortedOnThreeDeps ==
  /\ phase = "aborted"
  /\ Len(stack) >= 2
  /\ Top.pc = 1
  /\ Len(plan[Top.node].deps) = 3

\* what C4 says of a state: an aborted build stands at a violating node on its
\* walk, and a returned build met none and returned the root's executor
C4_Outcome ==
  /\ phase = "aborted" => (Bad(Top.node) /\ Top.node \in WalkFrom(Root))
  /\ phase = "done" =>
       /\ \A n \in WalkFrom(Root) : ~Bad(n)
       /\ ret \in Handles
       /\ pool[ret].id = Root

\* C4: the build aborts exactly when its walk meets a node of unknown kind or
\* of a dependency count outside 0..2; otherwise it terminates and returns the
\* executor whose identity is the root's.
C4_AbortsOnlyOnViolation == [](C4_Outcome) /\ <>(phase \in {"done", "aborted"})

\* C4 witness: the build aborted below the root on a node of unknown kind
C4_AbortedOnUnknownKind ==
  /\ phase = "aborted"
  /\ Len(stack) >= 2
  /\ plan[Top.node].kind = "kUnknown"
  /\ ~BadArity(Top.node)

\* C5: the output variable of every constructed executor has a slot from its
\* construction on, and once the build has returned the slots are those
\* variables and no others, whatever finish calls have run.
C5_SlotsDeclaredAtBuild ==
  /\ \A e \in Handles : Exist(ectx, OutputVar(e))
  /\ phase = "done" => DOMAIN ectx = {OutputVar(e) : e \in Handles}

\* C5 witness: finish has run on an executor of a graph of several executors
C5_FinishedAfterBuild ==
  /\ lastOp.op = "finish"
  /\ Len(pool) >= 2
  /\ ectx[OutputVar(lastOp.exec)] # <<>>

\* C6: a close that follows a finish(result) with no open and no other finish in
\* between has just published, under the executor's node id, a record whose
\* row count is the size of result.
C6_CloseReportsRows ==
  (lastOp.op = "close" /\ lastOp.exec \in DOMAIN lastFin) =>
    /\ pool[lastOp.exec].node \in DOMAIN prof
    /\ prof[pool[lastOp.exec].node][Len(prof[pool[lastOp.exec].node])].rows = Len(lastFin[lastOp.exec])

\* C6 witness: an executor was closed after finishing a result that has rows
C6_ClosedAfterFinish ==
  /\ lastOp.op = "close"
  /\ lastOp.exec \in DOMAIN lastFin
  /\ Len(lastFin[lastOp.exec]) >= 1

\* C7: every open returns OK, leaves the executor with row count 0, execution
\* time 0 and its timer restarted at the current clock reading, leaves every
\* other executor, every slot and every profiling entry as they were, and a
\* second open at once would change nothing.
C7_OpenResets ==
  [][\A e \in Handles : lastOp' = Called("open", e) =>
       /\ lastOp'.status = "OK"
       /\ pool'[e].numRows = 0
       /\ pool'[e].execTime = 0
       /\ pool'[e].start = now'
       /\ OpenExec(pool'[e], now') = pool'[e]
       /\ \A o \in Handles \ {e} : pool'[o] = pool[o]
       /\ ectx' = ectx
       /\ prof' = prof]_vars

\* C7 witness: an executor that had finished a result with rows was opened
C7_OpenedAfterFinish ==
  /\ lastOp.op = "open"
  /\ ectx[OutputVar(lastOp.exec)] # <<>>
  /\ pool[lastOp.exec].numRows = 0

C9_MemoizedBeforeRecursing ==
  \A i \in 1..(Len(stack) - 1) : stack[i].node \in DOMAIN visited

\* C9 amended: during a recursive call made on behalf of a node, the node is
\* not in the memoization map: it is entered when its own call returns, and the
\* map holds exactly the nodes whose call has returned.
C9_MemoizedAtReturn ==
  /\ \A i \in 1..(Len(stack) - 1) : stack[i].node \notin DOMAIN visited
  /\ \A i \in 1..Len(stack) : stack[i].pc >= 1 => stack[i].node \notin DOMAIN visited
  /\ \A e \in Handles :
       pool[e].node \in DOMAIN visited \/ (\E i \in 1..Len(stack) : stack[i].exec = e)

\* C9 witness: a recursive call is in progress while the map holds a node
C9_RecursingWithMemo ==
  /\ phase = "build"
  /\ Len(stack) >= 2
  /\ DOMAIN visited # {}

\* C10: the declared predecessors of a memoized executor are the executors of
\* its node's dependencies, as many and in the same order, at every moment from
\* its memoization on; after the build every executor is a memoized one.
C10_DependsMirrorsDeps ==
  /\ \A n \in DOMAIN visited :
       LET x == pool[visited[n]] IN
         /\ x.id = n
         /\ Len(x.depends) = Len(plan[n].deps)
         /\ Len(x.depends) \in {0, 1, 2}
         /\ \A i \in 1..Len(x.depends) :
              /\ plan[n].deps[i] \in DOMAIN visited
              /\ x.depends[i] = visited[plan[n].deps[i]]
  /\ phase = "done" =>
       \A e \in Handles : pool[e].id \in DOMAIN visited /\ visited[pool[e].id] = e

\* C10 witness: the build returned with an executor of two distinct
\* predecessors, one of which another executor also declares
C10_BinaryWithSharedDep ==
  /\ phase = "done"
  /\ \E e, o \in Handles :
       /\ e # o
       /\ Len(pool[e].depends) = 2
       /\ pool[e].depends[1] # pool[e].depends[2]
       /\ Len(pool[o].depends) >= 1
       /\ pool[o].depends[1] \in {pool[e].depends[1], pool[e].depends[2]}

====
